---- MODULE Spec2Model ----
(***************************************************************************)
(* Model of scripts/update_data.py: the fallback fetchers for the BFI84U   *)
(* and TWT93U reports, the trading-calendar resolver, the lending-column   *)
(* resolver, the merge loop of main and main's output phase.               *)
(*                                                                         *)
(* Strings are TLA+ strings; the substring tests of the code ("x in f",    *)
(* re.search) are decided by Substrings, the table of the marker           *)
(* substrings each header of the model's alphabet contains.  A calendar    *)
(* date is its day-of-year ordinal in 2024; _yyyymmdd formats it.          *)
(***************************************************************************)
EXTENDS Integers, Sequences, FiniteSets, TLC

VARIABLES
    \* ---- one call of fetch_bfi84u / fetch_twt93u, candidate by candidate
    report,      \* "BFI84U" | "TWT93U" | "none": the fetcher that is running
    arg,         \* its yyyymmdd argument
    fpc,         \* "loop" | "html" | "returned" | "raised" | "idle"
    i,           \* index into candidates of the next JSON candidate
    last_err,    \* the local last_err
    payload,     \* what the upstream answered to the latest attempt
    attempts,    \* history: <<[url, err]>>, one entry per attempt made
    ret,         \* the returned (table, url), or None
    exc,         \* the raised RuntimeError, or None
    \* ---- compute_trading_dates
    cpc,         \* "probe" | "check" | "returned" | "raised" | "idle"
    base, count, max_lookback_days,
    cursor, iter, trading, tables,
    probes,      \* history: <<[date, ok, ret]>>, the calls of fetch_twt93u, what each returned
    published,   \* the dates the exchange has published a lending report for
    latest,      \* the date of the report the undated HTML page shows
    layouts,     \* the header layouts the exchange gives its lending reports
    \* ---- _twt93u_indices
    fields,      \* the header list
    indices,     \* the outcome of _twt93u_indices
    \* ---- main
    mpc,         \* position of main
    twt_maps, bfi_table, labels, combined_fields, combined_rows,
    source,      \* the "source" object of the envelope: bfi_url and twt_urls
    r,           \* index into bfi_table.rows of the next row of the merge loop
    margin,      \* the margin report the exchange serves today, as sent
    failure,     \* the error that ended main, or None
    fs,          \* the file system: docs/data and the files in it
    fs0          \* history: the file system when main started

fetchVars == <<report, arg, fpc, i, last_err, payload, attempts, ret, exc>>
calVars   == <<cpc, base, count, max_lookback_days, cursor, iter, trading, tables,
               probes, published, latest, layouts>>
pickVars  == <<fields, indices>>
mainVars  == <<mpc, twt_maps, bfi_table, labels, combined_fields, combined_rows, source, r,
               margin, failure, fs, fs0>>
vars == <<fetchVars, calVars, pickVars, mainVars>>

\* An optional value (Python's None or a value) is <<>> or <<value>>.
None    == <<>>
Some(x) == <<x>>
Absent  == "<absent>"    \* a key the payload does not have (dict.get -> default)
Null    == "<null>"      \* JSON null, Python's None as a cell or status value
NoDate  == 0             \* a URL without a date parameter

(***************************************************************************)
(* Strings                                                                 *)
(***************************************************************************)
\* str.upper on the status texts of the model
Upper(s) ==
    CASE s = "ok"   -> "OK"
      [] s = "Ok"   -> "OK"
      [] s = "nok"  -> "NOK"
      [] s = "None" -> "NONE"
      [] s = "fail" -> "FAIL"
      [] OTHER      -> s

\* the test written the wrong way round: s in "OK"
ContainsOK_reversed(s) == s \in {"", "O", "K", "OK"}

\* "OK" in s, for the upper-cased status texts of the model
ContainsOK(s) == s \in {"OK", "NOK"}

\* str(x) of a status or cell value
Str(x) == IF x = Null THEN "None" ELSE x

\* str.strip on the cell texts of the model
Strip(s) ==
    CASE s = " "      -> ""
      [] s = " 2330"  -> "2330"
      [] s = "2330 "  -> "2330"
      [] OTHER        -> s

\* The header texts of the model and the marker substrings each contains.  The
\* markers stand for the Chinese texts of the source: "Code" for the stock-code
\* words of _find_stock_code_col, "Spot" for the covered-shares marker of
\* score_short, "TodayBal" and "DayBal" for the two targets of _twt93u_indices,
\* "Next" and "Quota" for the markers of score_borrow's next header, "DayAdj" for
\* the marker of its previous header.
Substrings(f) ==
    CASE f = "SecCode"       -> {"Code"}
      [] f = "SpotSell"      -> {"Spot"}
      [] f = "TodayBal"      -> {"TodayBal"}
      [] f = "SpotTodayBal"  -> {"Spot", "TodayBal"}
      [] f = "DayBal"        -> {"DayBal"}
      [] f = "NextDayQuota"  -> {"Next", "Quota"}
      [] f = "DayAdj"        -> {"DayAdj"}
      [] OTHER               -> {}

In(marker, f) == marker \in Substrings(f)

Max(S) == CHOOSE x \in S : \A y \in S : y <= x
Min(S) == CHOOSE x \in S : \A y \in S : x <= y

(***************************************************************************)
(* Dates                                                                   *)
(***************************************************************************)
MonthDays == <<31, 29, 31, 30, 31, 30, 31, 31, 30, 31, 30, 31>>

RECURSIVE MonthOf(_, _)
MonthOf(d, m) == IF d <= MonthDays[m] THEN <<m, d>> ELSE MonthOf(d - MonthDays[m], m + 1)

\* _yyyymmdd: strftime("%Y%m%d"), the digits read as a number
_yyyymmdd(d) == LET md == MonthOf(d, 1) IN 2024 * 10000 + md[1] * 100 + md[2]

(***************************************************************************)
(* Table Parser                                                            *)
(***************************************************************************)
Table(f, rws) == [fields |-> f, rows |-> rws]

\* The errors: raise_for_status and the transport name the URL in their text, a
\* ValueError has the text the code gives it (a tuple: the text and its argument).
HTTPError(u)  == [type |-> "HTTPError", msg |-> <<"for url">>, url |-> Some(u)]
ValueError(m) == [type |-> "ValueError", msg |-> m, url |-> None]

norm_cell(value) == IF value = Null THEN "" ELSE Strip(Str(value))

\* A falsy value of "fields" (absent, null, the empty list) gives way to "fields1".
Or(a, b) == IF a = None \/ a = Some(<<>>) THEN b ELSE a

\* _parse_twse_json_table: [ok, table] or [ok, err]
_parse_twse_json_table(p) ==
    LET flds == Or(p.fields, p.fields1)
        data == p.data
    IN  IF flds = None \/ data = None
        THEN [ok |-> FALSE, err |-> ValueError(<<"Unexpected TWSE JSON shape">>)]
        ELSE [ok |-> TRUE,
              table |-> Table([k \in DOMAIN flds[1] |-> Strip(Str(flds[1][k]))],
                              [k \in DOMAIN data[1] |->
                                  [c \in DOMAIN data[1][k] |-> norm_cell(data[1][k][c])]])]

\* _parse_html_first_table
_parse_html_first_table(h) ==
    LET ve(m) == [ok |-> FALSE, err |-> ValueError(<<m>>)]
    IN  IF ~h.table THEN ve("No <table> found")
        ELSE IF ~h.thead THEN ve("No <thead> found")
        ELSE IF h.header_rows = <<>> THEN ve("No header rows")
        ELSE [ok |-> TRUE,
              table |-> Table(h.header_rows[Len(h.header_rows)],
                              IF h.tbody_rows # <<>> THEN h.tbody_rows ELSE h.td_rows)]

(***************************************************************************)
(* Fallback Fetcher                                                        *)
(***************************************************************************)
Url(rep, ep, d) == [report |-> rep, ep |-> ep, date |-> d]

\* the candidates with the dated endpoint of each path before the undated one
candidates_swapped(rep, d) ==
    IF rep = "BFI84U"
    THEN << Url(rep, "rwd", d), Url(rep, "rwd", NoDate),
            Url(rep, "exchangeReport", d), Url(rep, "exchangeReport", NoDate) >>
    ELSE << Url(rep, "exchangeReport", d), Url(rep, "rwd", d) >>

\* the candidates lists of fetch_bfi84u and fetch_twt93u
candidates(rep, d) ==
    IF rep = "BFI84U"
    THEN << Url(rep, "rwd", NoDate), Url(rep, "rwd", d),
            Url(rep, "exchangeReport", NoDate), Url(rep, "exchangeReport", d) >>
    ELSE << Url(rep, "rwd", d), Url(rep, "exchangeReport", d) >>

html_url(rep) == Url(rep, "html", NoDate)

\* str(e): the text of an error, which names no type
ErrStr(e) == [msg |-> e.msg, url |-> e.url]

\* the body of the try of the JSON loop, for the answer p of the upstream to url u
TryJson(p, u) ==
    IF p.kind = "raise" THEN [ok |-> FALSE, err |-> HTTPError(u)]
    ELSE LET stat == Upper(Str(IF p.stat = Absent THEN "OK" ELSE p.stat))
         IN  IF ~ContainsOK(stat)
             THEN [ok |-> FALSE, err |-> ValueError(<<"TWSE stat not OK", Str(p.stat)>>)]
             ELSE LET parsed == _parse_twse_json_table(p)
                  IN  IF ~parsed.ok THEN parsed
                      ELSE IF parsed.table.rows = <<>>
                           THEN [ok |-> FALSE, err |-> ValueError(<<"No rows">>)]
                           ELSE parsed

\* the body of the try of the HTML page
TryHtml(h, u) ==
    IF h.kind = "raise" THEN [ok |-> FALSE, err |-> HTTPError(u)]
    ELSE LET parsed == _parse_html_first_table(h)
         IN  IF ~parsed.ok THEN parsed
             ELSE IF parsed.table.rows = <<>>
                  THEN [ok |-> FALSE, err |-> ValueError(<<"No rows">>)]
                  ELSE parsed

\* the RuntimeError carrying the error of the HTML page: f"...: {e}"
Carried_html(le, e) == ErrStr(e)

\* the text the RuntimeError carries: f"...: {last_err or e}"
Carried(le, e) == IF le # None THEN ErrStr(le[1]) ELSE ErrStr(e)

(***************************************************************************)
(* The upstream: what a GET may answer                                     *)
(***************************************************************************)
Raise == [kind |-> "raise"]

Stats == {Absent, Null, "OK", "ok", "nok", "fail", ""}

MarginFields == <<"SecCode", "Name">>
RawRowsSet == { << <<"2330 ", "10">> >>, << <<"2317", Null>> >> }

JsonPayloads ==
    [kind : {"json"}, stat : Stats,
     fields : {None, Some(<<>>), Some(MarginFields)},
     fields1 : {None, Some(<<"SecCode">>)},
     data : {None, Some(<<>>)} \cup {Some(rws) : rws \in RawRowsSet}]

HtmlRowsSet == { << <<"2330", "10">> >>, << <<"2317", "">> >> }

HtmlDocs ==
    { h \in [kind : {"html"}, table : BOOLEAN, thead : BOOLEAN,
             header_rows : {<<>>, <<MarginFields>>, <<(<<"Group">>), MarginFields>>},
             tbody_rows : {<<>>} \cup HtmlRowsSet, td_rows : {<<>>} \cup HtmlRowsSet] :
        /\ ~h.table => ~h.thead
        /\ ~h.thead => h.header_rows = <<>>
        /\ h.header_rows = <<>> => h.tbody_rows = <<>> /\ h.td_rows = <<>>
        /\ h.tbody_rows # <<>> => h.td_rows = h.tbody_rows }

JsonAnswers == {Raise} \cup JsonPayloads
HtmlAnswers == {Raise} \cup HtmlDocs

(***************************************************************************)
(* fetch_bfi84u / fetch_twt93u, one candidate per step                      *)
(***************************************************************************)
FetchIdle ==
    /\ report = "none" /\ arg = NoDate /\ fpc = "idle" /\ i = 0
    /\ last_err = None /\ payload = Raise /\ attempts = <<>> /\ ret = None /\ exc = None

\* one iteration of "for url in candidates"
JsonCandidate ==
    /\ fpc = "loop"
    /\ \E p \in JsonAnswers :
         LET u   == candidates(report, arg)[i]
             got == TryJson(p, u)
         IN  /\ payload' = p
             /\ IF got.ok
                THEN /\ ret' = Some([table |-> got.table, url |-> u])
                     /\ attempts' = Append(attempts, [url |-> u, err |-> None])
                     /\ fpc' = "returned"
                     /\ UNCHANGED <<last_err, i>>
                ELSE /\ last_err' = Some(got.err)
                     /\ attempts' = Append(attempts, [url |-> u, err |-> Some(got.err)])
                     /\ i' = i + 1
                     /\ fpc' = IF i + 1 > Len(candidates(report, arg)) THEN "html" ELSE "loop"
                     /\ ret' = ret
    /\ UNCHANGED <<report, arg, exc, calVars, pickVars, mainVars>>

\* the try of the HTML page after the loop
HtmlCandidate ==
    /\ fpc = "html"
    /\ \E h \in HtmlAnswers :
         LET u   == html_url(report)
             got == TryHtml(h, u)
         IN  /\ payload' = h
             /\ IF got.ok
                THEN /\ ret' = Some([table |-> got.table, url |-> u])
                     /\ attempts' = Append(attempts, [url |-> u, err |-> None])
                     /\ fpc' = "returned"
                     /\ exc' = exc
                ELSE /\ exc' = Some([type |-> "RuntimeError", report |-> report,
                                     carries |-> Carried(last_err, got.err)])
                     /\ attempts' = Append(attempts, [url |-> u, err |-> Some(got.err)])
                     /\ fpc' = "raised"
                     /\ ret' = ret
    /\ UNCHANGED <<report, arg, i, last_err, calVars, pickVars, mainVars>>

(***************************************************************************)
(* A whole call of a fetcher: ans[k] is the upstream's answer to the k-th  *)
(* candidate, ans[Len(candidates)+1] its answer for the HTML page.         *)
(***************************************************************************)
RECURSIVE FetchLoop(_, _, _, _, _)
FetchLoop(rep, d, ans, k, le) ==
    LET cs == candidates(rep, d)
    IN  IF k <= Len(cs)
        THEN LET got == TryJson(ans[k], cs[k])
             IN  IF got.ok
                 THEN [ok |-> TRUE, table |-> got.table, url |-> cs[k]]
                 ELSE FetchLoop(rep, d, ans, k + 1, Some(got.err))
        ELSE LET got == TryHtml(ans[k], html_url(rep))
             IN  IF got.ok
                 THEN [ok |-> TRUE, table |-> got.table, url |-> html_url(rep)]
                 ELSE [ok |-> FALSE,
                       exc |-> [type |-> "RuntimeError", report |-> rep,
                                carries |-> Carried(le, got.err)]]

fetch_twt93u(yyyymmdd, ans) == FetchLoop("TWT93U", yyyymmdd, ans, 1, None)
fetch_bfi84u(yyyymmdd, ans) == FetchLoop("BFI84U", yyyymmdd, ans, 1, None)

(***************************************************************************)
(* The exchange: its lending report of a date, and what its endpoints      *)
(* answer.  A dated JSON endpoint serves the report of its date when the   *)
(* exchange published one; the HTML page carries no date and shows the     *)
(* report of the latest trading date.  Any request may also fail.          *)
(***************************************************************************)
GoodLayout    == <<"SecCode", "SpotSell", "TodayBal", "DayBal", "NextDayQuota">>
NoShortLayout == <<"SecCode", "SpotSell", "Balance", "DayBal", "NextDayQuota">>

\* the lending report of date d: the balances differ from date to date
ReportRows(d) ==
    LET ds == ToString(_yyyymmdd(d))
    IN  << <<"2330", "1", "s" \o ds, "b" \o ds, "9">> >>

Report(d, lay) == Table(lay, ReportRows(d))

NoDataPayload ==
    [kind |-> "json", stat |-> "fail", fields |-> None, fields1 |-> None, data |-> None]
ReportPayload(d, lay) ==
    [kind |-> "json", stat |-> "OK", fields |-> Some(lay), fields1 |-> None,
     data |-> Some(ReportRows(d))]
ReportDoc(d, lay) ==
    [kind |-> "html", table |-> TRUE, thead |-> TRUE, header_rows |-> <<lay>>,
     tbody_rows |-> ReportRows(d), td_rows |-> ReportRows(d)]
EmptyDoc ==
    [kind |-> "html", table |-> FALSE, thead |-> FALSE, header_rows |-> <<>>,
     tbody_rows |-> <<>>, td_rows |-> <<>>]

\* what the lending endpoints may answer to a probe of date d
LendJson(d) ==
    {Raise, NoDataPayload}
        \cup (IF d \in published THEN {ReportPayload(d, l) : l \in layouts} ELSE {})
LendHtml == {Raise, EmptyDoc} \cup {ReportDoc(latest, l) : l \in layouts}

(***************************************************************************)
(* compute_trading_dates, one probe per step                                *)
(***************************************************************************)
\* The exchange's calendar around the base dates of the model: 1 January 2024 is
\* a Monday, the exchange is closed on Saturdays, Sundays and on 28 February.
Weekday(d) == (d - 1) % 7
Holidays == {59}
TradingDays == {d \in 1..366 : Weekday(d) < 5 /\ d \notin Holidays}

\* The report the HTML page may show on the base date b: that of the latest trading
\* day up to b, or (before the day's publication) that of the one before b.
LatestFor(b) == { Max({d \in TradingDays : d <= b}), Max({d \in TradingDays : d < b}) }

CalIdle ==
    /\ cpc = "idle" /\ base = NoDate /\ count = 0 /\ max_lookback_days = 0
    /\ cursor = NoDate /\ iter = 0 /\ trading = <<>> /\ tables = <<>>
    /\ probes = <<>> /\ published = {} /\ latest = NoDate /\ layouts = {}

CalStart(b, n, w, lat, lays) ==
    /\ cpc = "loop" /\ base = b /\ count = n /\ max_lookback_days = w
    /\ cursor = b /\ iter = 0 /\ trading = <<>> /\ tables = <<>>
    /\ probes = <<>> /\ published = {d \in TradingDays : d <= lat}
    /\ latest = lat /\ layouts = lays

Put(map, key, value) ==
    [k \in DOMAIN map \cup {key} |-> IF k = key THEN value ELSE map[k]]

\* the break one success late: "if len(trading) > count: break"
enough_late(n, cnt) == n > cnt

\* "if len(trading) >= count: break"
enough(n, cnt) == n >= cnt

\* "if len(trading) < count: raise"
too_few(n, cnt) == n < cnt

\* one iteration of "for _ in range(max_lookback_days)"
Probe ==
    /\ cpc = "loop"
    /\ iter < max_lookback_days
    /\ \E a1 \in LendJson(cursor), a2 \in LendJson(cursor), h \in LendHtml :
         LET ds  == _yyyymmdd(cursor)
             got == fetch_twt93u(ds, <<a1, a2, h>>)
         IN  /\ probes' = Append(probes, [date |-> cursor, ok |-> got.ok,
                                           ret |-> IF got.ok THEN <<got.table, got.url>>
                                                   ELSE <<>>])
             /\ IF got.ok
                THEN /\ trading' = Append(trading, cursor)
                     /\ tables' = Put(tables, ds, <<got.table, got.url>>)
                     /\ IF enough(Len(trading) + 1, count)
                        THEN /\ cpc' = "after"
                             /\ UNCHANGED <<cursor, iter>>
                        ELSE /\ cursor' = cursor - 1
                             /\ iter' = iter + 1
                             /\ cpc' = cpc
                ELSE /\ cursor' = cursor - 1
                     /\ iter' = iter + 1
                     /\ UNCHANGED <<trading, tables, cpc>>
    /\ UNCHANGED <<base, count, max_lookback_days, published, latest, layouts,
                   fetchVars, pickVars, mainVars>>

\* after the loop: "if len(trading) < count: raise", else return
CalFinish ==
    /\ \/ cpc = "after"
       \/ cpc = "loop" /\ iter >= max_lookback_days
    /\ cpc' = IF too_few(Len(trading), count) THEN "raised" ELSE "returned"
    /\ UNCHANGED <<base, count, max_lookback_days, cursor, iter, trading, tables,
                   probes, published, latest, layouts, fetchVars, pickVars, mainVars>>

(***************************************************************************)
(* Column Resolver.  Indices are zero-based as in the source; fields[k+1]  *)
(* is the header at index k.                                               *)
(***************************************************************************)
_find_stock_code_col(flds) ==
    LET hits == {k \in 0..(Len(flds) - 1) : In("Code", flds[k + 1])}
    IN  IF hits # {} THEN Min(hits) ELSE 0

\* sorted(((score_fn(i), i) for i in candidates), reverse=True)[0][1]: the greatest
\* (score, index) pair in the order of tuples; score_fn[k] is the score of index k
_pick_index(flds, target, score_fn) ==
    LET cands == {k \in 0..(Len(flds) - 1) : In(target, flds[k + 1])}
    IN  IF cands = {}
        THEN [ok |-> FALSE, err |-> ValueError(<<"Missing column", target>>)]
        ELSE LET best == Max({score_fn[k] : k \in cands})
             IN  [ok |-> TRUE, idx |-> Max({k \in cands : score_fn[k] = best})]

Pts(cond, pts) == IF cond THEN pts ELSE 0

score_short(flds, k) ==
      Pts(k - 1 >= 0 /\ In("Spot", flds[(k - 1) + 1]), 2)
    + Pts(k - 2 >= 0 /\ In("Spot", flds[(k - 2) + 1]), 1)
    + Pts(k - 3 >= 0 /\ In("Spot", flds[(k - 3) + 1]), 1)

score_borrow(flds, k) ==
      Pts(k + 1 < Len(flds) /\ (In("Next", flds[(k + 1) + 1]) \/ In("Quota", flds[(k + 1) + 1])), 2)
    + Pts(k - 1 >= 0 /\ In("DayAdj", flds[(k - 1) + 1]), 1)

_twt93u_indices(flds) ==
    LET ss == [k \in 0..(Len(flds) - 1) |-> score_short(flds, k)]
        sb == [k \in 0..(Len(flds) - 1) |-> score_borrow(flds, k)]
        short  == _pick_index(flds, "TodayBal", ss)
        borrow == _pick_index(flds, "DayBal", sb)
    IN  IF ~short.ok THEN short
        ELSE IF ~borrow.ok THEN borrow
        ELSE [ok |-> TRUE, code_idx |-> _find_stock_code_col(flds),
              short_idx |-> short.idx, borrow_idx |-> borrow.idx]

PickIdle == fields = <<>> /\ indices = None

\* a call of _twt93u_indices on the header list
Resolve ==
    /\ indices = None
    /\ indices' = Some(_twt93u_indices(fields))
    /\ UNCHANGED <<fields, fetchVars, calVars, mainVars>>

(***************************************************************************)
(* build_twt93u_maps                                                       *)
(***************************************************************************)
NoMap == [c \in {} |-> <<"", "">>]

\* "for row in table.rows": the date_map after the rows from the k-th on
RECURSIVE date_map(_, _, _, _)
date_map(rows, idx, k, m) ==
    IF k > Len(rows) THEN m
    ELSE LET row  == rows[k]
             code == IF idx.code_idx >= Len(row) THEN "" ELSE Strip(row[idx.code_idx + 1])
         IN  IF idx.code_idx >= Len(row) \/ code = ""
             THEN date_map(rows, idx, k + 1, m)
             ELSE LET short_val  == IF idx.short_idx < Len(row)
                                    THEN Strip(row[idx.short_idx + 1]) ELSE ""
                      borrow_val == IF idx.borrow_idx < Len(row)
                                    THEN Strip(row[idx.borrow_idx + 1]) ELSE ""
                  IN  date_map(rows, idx, k + 1, Put(m, code, <<short_val, borrow_val>>))

\* "for d in trading_dates": [ok, maps, source_urls], or the ValueError of the
\* first date whose table lacks a target column
RECURSIVE build_twt93u_maps(_, _, _, _, _)
build_twt93u_maps(trading_dates, tables_by_date, k, maps, urls) ==
    IF k > Len(trading_dates) THEN [ok |-> TRUE, maps |-> maps, source_urls |-> urls]
    ELSE LET ds  == _yyyymmdd(trading_dates[k])
             tu  == tables_by_date[ds]
             idx == _twt93u_indices(tu[1].fields)
         IN  IF ~idx.ok THEN idx
             ELSE build_twt93u_maps(trading_dates, tables_by_date, k + 1,
                                    Put(maps, ds, date_map(tu[1].rows, idx, 1, NoMap)),
                                    Put(urls, ds, tu[2]))

(***************************************************************************)
(* main                                                                    *)
(***************************************************************************)
EmDash == "<em-dash>"      \* the sentinel, U+2014

Label(k) == IF k = 0 THEN "D0" ELSE "D-" \o ToString(k)

RECURSIVE appended_fields(_, _)
appended_fields(lbls, k) ==
    IF k > Len(lbls) THEN <<>>
    ELSE <<"Short_TodayBal_" \o lbls[k], "Borrow_DayBal_" \o lbls[k]>>
         \o appended_fields(lbls, k + 1)

\* x or "—"
OrDash(x) == IF x = "" THEN EmDash ELSE x

\* the merge loop appending nothing to a row that has no code
extras_nocode(code, dates, maps, k) ==
    IF code = "" THEN <<>>
    ELSE [j \in 1..(2 * Len(dates)) |-> EmDash]

\* "for d in trading_dates" of the merge loop: the extras of a row with this code
RECURSIVE extras(_, _, _, _)
extras(code, dates, maps, k) ==
    IF k > Len(dates) THEN <<>>
    ELSE LET ds    == _yyyymmdd(dates[k])
             dmap  == IF ds \in DOMAIN maps THEN maps[ds] ELSE NoMap
             found == code \in DOMAIN dmap
             pair  == IF found THEN dmap[code] ELSE <<"", "">>
         IN  <<OrDash(pair[1]), OrDash(pair[2])>> \o extras(code, dates, maps, k + 1)

NoTable == Table(<<>>, <<>>)
NoSource == [bfi84u |-> None, twt93u_by_date |-> <<>>]
NoFiles == [n \in {} |-> <<>>]

MainIdle ==
    /\ mpc = "idle" /\ twt_maps = <<>> /\ bfi_table = NoTable /\ labels = <<>>
    /\ combined_fields = <<>> /\ combined_rows = <<>> /\ source = NoSource /\ r = 0
    /\ margin = NoTable /\ failure = None
    /\ fs = [dir |-> FALSE, files |-> NoFiles] /\ fs0 = fs

\* main after "session = _session()", about to call compute_trading_dates
MainStart(m, f) ==
    /\ mpc = "calendar" /\ twt_maps = <<>> /\ bfi_table = NoTable /\ labels = <<>>
    /\ combined_fields = <<>> /\ combined_rows = <<>> /\ source = NoSource /\ r = 0
    /\ margin = m /\ failure = None
    /\ fs = f /\ fs0 = f

\* compute_trading_dates raised: main ends with the error
MainCalendarFailed ==
    /\ mpc = "calendar" /\ cpc = "raised"
    /\ failure' = Some("InsufficientTradingHistory")
    /\ mpc' = "failed"
    /\ UNCHANGED <<twt_maps, bfi_table, labels, combined_fields, combined_rows, source, r,
                   margin, fs, fs0, fetchVars, calVars, pickVars>>

\* lines 266-269: labels and build_twt93u_maps
MainBuildMaps ==
    /\ mpc = "calendar" /\ cpc = "returned"
    /\ labels' = [k \in 1..Len(trading) |-> Label(k - 1)]
    /\ LET built == build_twt93u_maps(trading, tables, 1, <<>>, <<>>)
       IN  IF built.ok
           THEN /\ twt_maps' = built.maps
                /\ source' = [source EXCEPT !.twt93u_by_date = built.source_urls]
                /\ mpc' = "bfi"
                /\ failure' = failure
           ELSE /\ failure' = Some("ColumnNotFound")
                /\ mpc' = "failed"
                /\ UNCHANGED <<twt_maps, source>>
    /\ UNCHANGED <<bfi_table, combined_fields, combined_rows, r, margin, fs, fs0,
                   fetchVars, calVars, pickVars>>

TablePayload(t) ==
    [kind |-> "json", stat |-> "OK", fields |-> Some(t.fields), fields1 |-> None,
     data |-> Some(t.rows)]
TableDoc(t) ==
    [kind |-> "html", table |-> TRUE, thead |-> TRUE, header_rows |-> <<t.fields>>,
     tbody_rows |-> t.rows, td_rows |-> t.rows]

\* The margin endpoints' answers to one call: the candidates before the k-th fail
\* the way bad says, the k-th (if any) serves the table t.
MarginAnswers(k, t, bad) ==
    [j \in 1..5 |->
        IF j = 5
        THEN (IF j = k THEN TableDoc(t) ELSE IF bad = Raise THEN Raise ELSE EmptyDoc)
        ELSE (IF j = k THEN TablePayload(t) ELSE bad)]

\* lines 272-282: fetch_bfi84u, the code column, the combined fields
MainFetchBfi ==
    /\ mpc = "bfi"
    /\ \E k \in 0..5, bad \in {Raise, NoDataPayload} :
         LET got == fetch_bfi84u(_yyyymmdd(base), MarginAnswers(k, margin, bad))
         IN  IF got.ok
             THEN /\ bfi_table' = got.table
                  /\ source' = [source EXCEPT !.bfi84u = Some(got.url)]
                  /\ combined_fields' = got.table.fields \o appended_fields(labels, 1)
                  /\ combined_rows' = <<>>
                  /\ r' = 1
                  /\ mpc' = "merge"
                  /\ failure' = failure
             ELSE /\ failure' = Some("FetchExhausted")
                  /\ mpc' = "failed"
                  /\ UNCHANGED <<bfi_table, source, combined_fields, combined_rows, r>>
    /\ UNCHANGED <<twt_maps, labels, margin, fs, fs0, fetchVars, calVars, pickVars>>

\* one iteration of "for row in bfi_table.rows"
MergeRow ==
    /\ mpc = "merge"
    /\ LET code_idx == _find_stock_code_col(bfi_table.fields)
           row      == bfi_table.rows[r]
           code     == IF code_idx < Len(row) THEN Strip(row[code_idx + 1]) ELSE ""
       IN  combined_rows' = Append(combined_rows, row \o extras(code, trading, twt_maps, 1))
    /\ r' = r + 1
    /\ mpc' = IF r + 1 > Len(bfi_table.rows) THEN "makedirs" ELSE "merge"
    /\ UNCHANGED <<twt_maps, bfi_table, labels, combined_fields, source, margin, failure,
                   fs, fs0, fetchVars, calVars, pickVars>>

\* d.isoformat()
Pad2(n) == IF n < 10 THEN "0" \o ToString(n) ELSE ToString(n)
isoformat(d) == LET md == MonthOf(d, 1) IN "2024-" \o Pad2(md[1]) \o "-" \o Pad2(md[2])

csv_name(d) == "latest-" \o isoformat(d) \o ".csv"

\* re.match(r"^latest-\d{4}-\d{2}-\d{2}\.csv$", name), on the file names of the model
IsDatedCsv(name) == \E d \in 1..366 : name = csv_name(d)

\* the output directory made before the margin table is fetched
Makedirs_early ==
    /\ mpc \in {"bfi", "makedirs"}
    /\ mpc = "bfi" => ~fs.dir
    /\ fs' = [fs EXCEPT !.dir = TRUE]
    /\ mpc' = IF mpc = "bfi" THEN "bfi" ELSE "remove"
    /\ UNCHANGED <<twt_maps, bfi_table, labels, combined_fields, combined_rows, source, r,
                   margin, failure, fs0, fetchVars, calVars, pickVars>>

\* os.makedirs(out_dir, exist_ok=True)
Makedirs ==
    /\ mpc = "makedirs"
    /\ fs' = [fs EXCEPT !.dir = TRUE]
    /\ mpc' = "remove"
    /\ UNCHANGED <<twt_maps, bfi_table, labels, combined_fields, combined_rows, source, r,
                   margin, failure, fs0, fetchVars, calVars, pickVars>>

\* the loop over os.listdir(out_dir) that removes the dated CSV files
RemoveStale ==
    /\ mpc = "remove"
    /\ fs' = [fs EXCEPT !.files =
                [n \in {m \in DOMAIN fs.files : ~IsDatedCsv(m)} |-> fs.files[n]]]
    /\ mpc' = "csv"
    /\ UNCHANGED <<twt_maps, bfi_table, labels, combined_fields, combined_rows, source, r,
                   margin, failure, fs0, fetchVars, calVars, pickVars>>

\* lines 307-310
WriteCsv ==
    /\ mpc = "csv"
    /\ fs' = [fs EXCEPT !.files =
                Put(fs.files, csv_name(base),
                    [kind |-> "csv", fields |-> combined_fields, rows |-> combined_rows])]
    /\ mpc' = "json"
    /\ UNCHANGED <<twt_maps, bfi_table, labels, combined_fields, combined_rows, source, r,
                   margin, failure, fs0, fetchVars, calVars, pickVars>>

\* lines 312-324
WriteJson ==
    /\ mpc = "json"
    /\ fs' = [fs EXCEPT !.files =
                Put(fs.files, "latest.json",
                    [kind |-> "json", base_date |-> isoformat(base),
                     trading_dates |-> [k \in DOMAIN trading |-> isoformat(trading[k])],
                     labels |-> labels, source |-> source,
                     csv |-> csv_name(base),
                     fields |-> combined_fields, rows |-> combined_rows])]
    /\ mpc' = "done"
    /\ UNCHANGED <<twt_maps, bfi_table, labels, combined_fields, combined_rows, source, r,
                   margin, failure, fs0, fetchVars, calVars, pickVars>>

(***************************************************************************)
(* Bounds and inputs                                                       *)
(***************************************************************************)
MaxCount     == 5    \* the counts asked of compute_trading_dates: 1..MaxCount
MaxLookback  == 7    \* its windows: 0..MaxLookback days
MaxFields    == 5    \* the length of the header lists given to _twt93u_indices
MaxDates     == 2    \* the trading dates of the merge
MaxBaseRows  == 2    \* the rows of the margin table of the merge
MainCount    == 2    \* a run of main asks for 1..MainCount dates (the source: count=5)
MainLookback == 3    \* in windows of 0..MainLookback days (the source: 45)

\* Saturday 2 March and Monday 4 March 2024: the windows reach back over a
\* weekend, a holiday and 29 February
BaseDates == {62, 64}

Headers == {"SecCode", "SpotSell", "TodayBal", "SpotTodayBal", "DayBal", "NextDayQuota",
            "DayAdj", "Name"}

SeqsUpTo(S, n) == UNION {[1..k -> S] : k \in 0..n}
SeqsFrom(S, lo, hi) == UNION {[1..k -> S] : k \in lo..hi}

(***************************************************************************)
(* The fetchers alone                                                      *)
(***************************************************************************)
InitFetch ==
    /\ report \in {"BFI84U", "TWT93U"}
    /\ arg \in {_yyyymmdd(d) : d \in BaseDates}
    /\ fpc = "loop" /\ i = 1
    /\ last_err = None /\ payload = Raise /\ attempts = <<>> /\ ret = None /\ exc = None
    /\ CalIdle /\ PickIdle /\ MainIdle

NextFetch == JsonCandidate \/ HtmlCandidate

SpecFetch == InitFetch /\ [][NextFetch]_vars

(***************************************************************************)
(* compute_trading_dates alone                                             *)
(***************************************************************************)
InitCal ==
    /\ \E b \in BaseDates, n \in 1..MaxCount, w \in 0..MaxLookback :
       \E lat \in LatestFor(b) : CalStart(b, n, w, lat, {GoodLayout})
    /\ FetchIdle /\ PickIdle /\ MainIdle

NextCal == Probe \/ CalFinish

SpecCal == InitCal /\ [][NextCal]_vars

(***************************************************************************)
(* _twt93u_indices alone                                                   *)
(***************************************************************************)
InitPick ==
    /\ fields \in SeqsUpTo(Headers, MaxFields)
    /\ indices = None
    /\ FetchIdle /\ CalIdle /\ MainIdle

NextPick == Resolve

SpecPick == InitPick /\ [][NextPick]_vars

(***************************************************************************)
(* Properties of the fetchers (SpecFetch)                                  *)
(***************************************************************************)
LastAttempt == attempts[Len(attempts)]

\* the order the source lists the URLs in: the JSON endpoints, then the HTML page
ListedOrder(rep, d) ==
    IF rep = "BFI84U"
    THEN << Url(rep, "rwd", NoDate), Url(rep, "rwd", d),
            Url(rep, "exchangeReport", NoDate), Url(rep, "exchangeReport", d),
            Url(rep, "html", NoDate) >>
    ELSE << Url(rep, "rwd", d), Url(rep, "exchangeReport", d), Url(rep, "html", NoDate) >>

\* the table the upstream's answer p holds
TableOf(p) ==
    IF p.kind = "json" THEN _parse_twse_json_table(p).table
    ELSE _parse_html_first_table(p).table

\* C1: the candidates are attempted in list order, the JSON endpoints before the
\* HTML page, each at most once; nothing is attempted after a success; what is
\* returned is the table and URL of the first candidate that succeeded.
C1_FirstSuccessInOrder ==
    /\ Len(attempts) <= Len(ListedOrder(report, arg))
    /\ \A k \in DOMAIN attempts : attempts[k].url = ListedOrder(report, arg)[k]
    /\ \A j, k \in DOMAIN attempts : j # k => attempts[j].url # attempts[k].url
    /\ \A k \in DOMAIN attempts : k < Len(attempts) => attempts[k].err # None
    /\ (ret # None) <=> (fpc = "returned")
    /\ fpc = "returned" =>
         /\ LastAttempt.err = None
         /\ ret = Some([table |-> TableOf(payload), url |-> LastAttempt.url])

\* a fetch that returned the table of its fourth candidate after three failures
C1_Witness ==
    /\ report = "BFI84U" /\ fpc = "returned" /\ Len(attempts) = 4
    /\ ret[1].url = Url("BFI84U", "exchangeReport", arg)

SaysOK(stat) == stat \in {"OK", "ok", "nok"}

\* C9 as stated: a JSON candidate is accepted only if its payload has a status
\* field whose upper-cased value contains "OK".
C9_AcceptedOnlyWithStatusOK ==
    (fpc = "returned" /\ payload.kind = "json") =>
        (payload.stat # Absent /\ SaysOK(payload.stat))

\* C9 amended: a JSON candidate is accepted only if its payload has no status
\* field or one whose upper-cased value contains "OK"; a payload whose status is
\* present without "OK" fails the candidate, its table is not returned and the
\* fetch goes on to the next candidate.
C9_AcceptedOnlyWithoutBadStatus ==
    (attempts # <<>> /\ payload.kind = "json") =>
        /\ fpc = "returned" => (payload.stat = Absent \/ SaysOK(payload.stat))
        /\ (payload.stat # Absent /\ ~SaysOK(payload.stat)) =>
             /\ LastAttempt.err # None
             /\ ret = None
             /\ fpc \in {"loop", "html"}
             /\ i = Len(attempts) + 1

\* a payload without a status field was accepted
C9_Witness ==
    fpc = "returned" /\ payload.kind = "json" /\ payload.stat = Absent

(***************************************************************************)
(* Properties of compute_trading_dates (SpecCal)                           *)
(***************************************************************************)
\* the probes that succeeded, in probing order
Succeeded == SelectSeq(probes, LAMBDA p : p.ok)

\* C2: the dates base, base-1, ... are probed in that order, one fetch per date,
\* never more than W; probing stops right after the N-th success; a call returns
\* exactly when N probes succeeded, with the N succeeding dates, most recent
\* first, and a cache of exactly their probes' tables and URLs; otherwise it
\* raises after W probes.
C2_TradingDates ==
    /\ Len(probes) <= max_lookback_days
    /\ \A k \in DOMAIN probes : probes[k].date = base - (k - 1)
    /\ Len(Succeeded) <= count
    /\ Len(Succeeded) = count => probes[Len(probes)].ok
    /\ cpc = "returned" =>
         /\ Len(Succeeded) = count
         /\ trading = [k \in 1..count |-> Succeeded[k].date]
         /\ \A j, k \in 1..count : j < k => trading[j] > trading[k]
         /\ DOMAIN tables = {_yyyymmdd(trading[k]) : k \in 1..count}
         /\ \A k \in 1..count :
              tables[_yyyymmdd(trading[k])] = Succeeded[k].ret
    /\ cpc = "raised" => Len(Succeeded) < count /\ Len(probes) = max_lookback_days
    /\ (cpc = "loop" /\ Len(Succeeded) < count) => Len(probes) = iter

\* seven days probed, five of them succeeded, the five returned
C2_Witness ==
    /\ cpc = "returned" /\ count = 5 /\ max_lookback_days = 7
    /\ Len(probes) = 7 /\ Len(trading) = 5

\* C3 as stated: every recorded trading date is a date the exchange published a
\* lending report for, and the table cached under it is that date's report.
C3_RecordedDatesArePublished ==
    \A k \in DOMAIN trading :
        /\ trading[k] \in published
        /\ tables[_yyyymmdd(trading[k])][1] = Report(trading[k], GoodLayout)

(***************************************************************************)
(* Properties of _twt93u_indices (SpecPick)                                *)
(***************************************************************************)
\* the documented score: 2 for the marker one position back, else 1 for the
\* marker two or three positions back, else 0
DocScore(flds, k) ==
    IF k - 1 >= 0 /\ In("Spot", flds[k])  THEN 2
    ELSE IF \/ k - 2 >= 0 /\ In("Spot", flds[k - 1])
            \/ k - 3 >= 0 /\ In("Spot", flds[k - 2]) THEN 1
    ELSE 0

\* the index the documented precedence picks: highest score, first occurrence
DocShort(flds) ==
    LET cands == {k \in 0..(Len(flds) - 1) : In("TodayBal", flds[k + 1])}
        best  == Max({DocScore(flds, k) : k \in cands})
    IN  Min({k \in cands : DocScore(flds, k) = best})

\* C8 as stated: the short-balance index _twt93u_indices returns is the one the
\* documented precedence picks.
C8_DocumentedPrecedence ==
    (indices # None /\ indices[1].ok) => indices[1].short_idx = DocShort(fields)

(***************************************************************************)
(* The merge of main alone: from the return of compute_trading_dates to    *)
(* the end of the merge loop, on drawn lending tables and margin reports   *)
(***************************************************************************)
LendFields == <<"SecCode", "TodayBal", "DayBal">>

\* parsed lending tables: a full row, an empty balance cell, a row that ends
\* after its code, a row without a code, and a code listed twice
LendTables ==
    { Table(LendFields, << <<"2330", "5", "7">> >>),
      Table(LendFields, << <<"2330", "", "7">> >>),
      Table(LendFields, << <<"2330">> >>),
      Table(LendFields, << <<"", "5", "7">> >>),
      Table(LendFields, << <<"2330", "5", "7">>, <<"2330", "6", "">> >>) }

\* rows of a margin report as sent: a listed code, an unlisted code, a row
\* shorter than the header, an empty row, an empty code cell
MarginRows == { <<" 2330", "x">>, <<"9999", Null>>, <<"2330">>, <<>>, <<"", "x">> }

MarginTables == { Table(MarginFields, rws) : rws \in SeqsFrom(MarginRows, 1, MaxBaseRows) }

\* the n latest trading days up to b, most recent first
RECURSIVE RecentTradingDays(_, _)
RecentTradingDays(b, n) ==
    IF n = 0 THEN <<>>
    ELSE LET d == Max({x \in TradingDays : x <= b})
         IN  <<d>> \o RecentTradingDays(d - 1, n - 1)

InitMerge ==
    /\ \E b \in BaseDates, n \in 1..MaxDates :
         LET days == RecentTradingDays(b, n)
         IN  /\ base = b /\ count = n /\ max_lookback_days = b - days[n] + 1
             /\ trading = days
             /\ cursor = days[n] /\ iter = b - days[n]
             /\ tables \in [ {_yyyymmdd(days[k]) : k \in 1..n} ->
                               {<<t, Url("TWT93U", "rwd", NoDate)>> : t \in LendTables} ]
             /\ probes = <<>>
             /\ published = {d \in TradingDays : d <= b}
             /\ latest = days[1] /\ layouts = {GoodLayout}
    /\ cpc = "returned"
    /\ \E m \in MarginTables : MainStart(m, [dir |-> FALSE, files |-> NoFiles])
    /\ FetchIdle /\ PickIdle

NextMerge == MainBuildMaps \/ MainFetchBfi \/ MergeRow

SpecMerge == InitMerge /\ [][NextMerge]_vars

(***************************************************************************)
(* A run of main                                                           *)
(***************************************************************************)
Old == [kind |-> "old"]

\* docs/data before the run: absent; empty; holding yesterday's output and a file
\* of another name; holding today's output of an earlier run
FsStates(b) ==
    { [dir |-> FALSE, files |-> NoFiles],
      [dir |-> TRUE,  files |-> NoFiles],
      [dir |-> TRUE,  files |-> [n \in {csv_name(b - 1), "latest.json", "notes.csv"} |-> Old]],
      [dir |-> TRUE,  files |-> [n \in {csv_name(b), "latest.json"} |-> Old]] }

TodaysMargin == Table(MarginFields, << <<"2330", "x">>, <<"9999">> >>)

InitMain ==
    /\ \E b \in BaseDates, n \in 1..MainCount, w \in 0..MainLookback :
       \E lat \in LatestFor(b) :
         /\ CalStart(b, n, w, lat, {GoodLayout, NoShortLayout})
         /\ \E f \in FsStates(b) : MainStart(TodaysMargin, f)
    /\ FetchIdle /\ PickIdle

NextMain ==
    \/ Probe \/ CalFinish
    \/ MainCalendarFailed \/ MainBuildMaps \/ MainFetchBfi \/ MergeRow
    \/ Makedirs \/ RemoveStale \/ WriteCsv \/ WriteJson

SpecMain == InitMain /\ [][NextMain]_vars

(***************************************************************************)
(* Properties of the merge (SpecMerge)                                     *)
(***************************************************************************)
\* the code main reads from the k-th base row
BaseCode(k) ==
    LET code_idx == _find_stock_code_col(bfi_table.fields)
        row      == bfi_table.rows[k]
    IN  IF code_idx < Len(row) THEN Strip(row[code_idx + 1]) ELSE ""

\* the cell at position p (from 1) of a row, if the row has one
Cell(row, p) == IF p <= Len(row) THEN Some(row[p]) ELSE None

\* C4 as stated: for every merged row and trading date, the two cells appended
\* for the date are exactly the pair the date's map stores for the row's code,
\* and both are the sentinel when the code is no key of the map.
C4_PairOrSentinel ==
    \A k \in DOMAIN combined_rows : \A j \in DOMAIN trading :
        LET n    == Len(bfi_table.rows[k])
            dmap == twt_maps[_yyyymmdd(trading[j])]
            got  == <<combined_rows[k][n + 2 * j - 1], combined_rows[k][n + 2 * j]>>
        IN  IF BaseCode(k) \in DOMAIN dmap
            THEN got = dmap[BaseCode(k)]
            ELSE got = <<EmDash, EmDash>>

\* C5: the merged rows are the base rows, in order, each with its own cells
\* unchanged and exactly 2*N cells after them; the base rows are the rows of the
\* margin report that was fetched, none dropped.
C5_RowsPreserved ==
    /\ mpc \in {"merge", "makedirs"} =>
         /\ Len(bfi_table.rows) = Len(margin.rows)
         /\ Len(combined_rows) = r - 1
         /\ r - 1 <= Len(bfi_table.rows)
    /\ mpc = "makedirs" => Len(combined_rows) = Len(bfi_table.rows)
    /\ \A k \in DOMAIN combined_rows :
         /\ Len(combined_rows[k]) = Len(bfi_table.rows[k]) + 2 * Len(trading)
         /\ SubSeq(combined_rows[k], 1, Len(bfi_table.rows[k])) = bfi_table.rows[k]

\* a merge of two dates onto an empty row and a row whose code no map lists
C5_Witness ==
    /\ mpc = "makedirs" /\ Len(trading) = 2 /\ Len(combined_rows) = 2
    /\ bfi_table.rows[1] = <<>>
    /\ bfi_table.rows[2] = <<"9999", "">>
    /\ Len(combined_rows[1]) = 4

\* C10 as stated: the combined field list has len(base fields) + 2N names, and in
\* every merged row the cells at len(base fields)+2k and len(base fields)+2k+1
\* (from 0) are the balances appended for the k-th trading date.
C10_CellsAligned ==
    mpc \in {"merge", "makedirs"} =>
        LET nf == Len(bfi_table.fields)
        IN  /\ Len(combined_fields) = nf + 2 * Len(trading)
            /\ \A j \in DOMAIN trading :
                 /\ combined_fields[nf + 2 * j - 1] = "Short_TodayBal_" \o Label(j - 1)
                 /\ combined_fields[nf + 2 * j] = "Borrow_DayBal_" \o Label(j - 1)
            /\ \A k \in DOMAIN combined_rows : \A j \in DOMAIN trading :
                 LET ex == extras(BaseCode(k), trading, twt_maps, 1)
                 IN  /\ Cell(combined_rows[k], nf + 2 * j - 1) = Some(ex[2 * j - 1])
                     /\ Cell(combined_rows[k], nf + 2 * j) = Some(ex[2 * j])

(***************************************************************************)
(* Properties of a run of main (SpecMain)                                  *)
(***************************************************************************)
\* C6: a run that ends with FetchExhausted, InsufficientTradingHistory or
\* ColumnNotFound has left the file system as it found it; the file system changes
\* only after the calendar resolution, the lending column resolution and the
\* margin fetch have all succeeded.
C6_AllOrNothing ==
    /\ failure # None =>
         /\ fs = fs0
         /\ failure[1] \in {"FetchExhausted", "InsufficientTradingHistory", "ColumnNotFound"}
    /\ mpc \in {"calendar", "bfi", "merge", "makedirs", "failed"} => fs = fs0
    /\ fs # fs0 =>
         /\ cpc = "returned"
         /\ DOMAIN twt_maps = {_yyyymmdd(trading[k]) : k \in DOMAIN trading}
         /\ source.bfi84u # None
         /\ failure = None

\* the margin fetch was exhausted in a run that found stale output in docs/data
C6_Witness ==
    /\ failure = Some("FetchExhausted")
    /\ cpc = "returned"
    /\ csv_name(base - 1) \in DOMAIN fs.files

====
